---- MODULE Spec2Model ----
(***************************************************************************)
(* Recipe catalog API: the recipe aggregate (recipes with their tag and    *)
(* ingredient association sets), the per-user tag and ingredient tables    *)
(* and the request handlers of app/recipe/views.py.                        *)
(*                                                                         *)
(* views.py is modelled from its code.  The serializers and the models     *)
(* (recipe/serializers.py, core/models.py) and the ingredient view are     *)
(* modelled from the written specification of the repository.              *)
(***************************************************************************)
EXTENDS Integers, Sequences, FiniteSets, TLC

(* ----------------------------- bounds ---------------------------------- *)
\* Recipe ids ever handed out (auto-increment primary key).
MaxRecipes == 2
\* Tag ids ever handed out.
MaxTags == 2
\* Ingredient ids ever handed out.
MaxIngredients == 1
\* Names in one `tags` or `ingredients` list of a request payload.
MaxNames == 2
\* Ids in the `tags` and `ingredients` query parameters of one list request.
MaxFilterIds == 2
\* Store writes of one request before which an injected storage fault hits.
MaxFault == 2

Users == {"u1", "u2"}
\* Names in ascending (alphabetical) order; a name's rank is its index.
TagNames == <<"Indian", "Vegan">>
IngredientNames == <<"Kale">>

Range(s) == {s[i] : i \in DOMAIN s}
Max(S) == CHOOSE x \in S : \A y \in S : y <= x
Min(S) == CHOOSE x \in S : \A y \in S : x <= y

VARIABLES
    recipes,            \* id -> Recipe row (core.models.Recipe)
    tags,               \* id -> Tag row (core.models.Tag)
    ingredients,        \* id -> Ingredient row (core.models.Ingredient)
    nextRecipeId,       \* auto-increment counters of the three tables
    nextTagId,
    nextIngredientId,
    last,               \* the request being answered and its response
    before,             \* history: the store as that request found it
    images,             \* recipe id -> stored-file reference (Recipe.image)
    files,              \* the binaries held by the file storage
    workers             \* requests in progress when requests run concurrently

vars == <<recipes, tags, ingredients, nextRecipeId, nextTagId, nextIngredientId, last, before,
          images, files, workers>>

(* ------------------------------ rows ----------------------------------- *)
\* core.models.Recipe: owner, scalar fields and the two many-to-many sets.
RecipeRow(u, title, time_minutes, price, link, description) ==
    [user |-> u, title |-> title, time_minutes |-> time_minutes, price |-> price,
     link |-> link, description |-> description, tags |-> {}, ingredients |-> {}]

\* core.models.Tag / core.models.Ingredient: owner and name.
NamedRow(u, n) == [user |-> u, name |-> n]

\* The persistent store as one value, so that a request can be run against
\* it step by step and rolled back.
Store ==
    [recipes |-> recipes, tags |-> tags, ingredients |-> ingredients,
     nextRecipeId |-> nextRecipeId, nextTagId |-> nextTagId,
     nextIngredientId |-> nextIngredientId, images |-> images, files |-> files]

EmptyStore ==
    [recipes |-> <<>>, tags |-> <<>>, ingredients |-> <<>>,
     nextRecipeId |-> 1, nextTagId |-> 1, nextIngredientId |-> 1,
     images |-> <<>>, files |-> {}]

(* ----------------------------- payloads -------------------------------- *)
\* A request body: `keys` is the set of keys present; a key that is absent
\* carries the neutral value of its field.
Payload(keys, title, time_minutes, price, link, description, tagNames, ingredientNames) ==
    [keys |-> keys,
     title |-> IF "title" \in keys THEN title ELSE "",
     time_minutes |-> IF "time_minutes" \in keys THEN time_minutes ELSE 0,
     price |-> IF "price" \in keys THEN price ELSE 0,
     link |-> IF "link" \in keys THEN link ELSE "",
     description |-> IF "description" \in keys THEN description ELSE "",
     tags |-> IF "tags" \in keys THEN tagNames ELSE <<>>,
     ingredients |-> IF "ingredients" \in keys THEN ingredientNames ELSE <<>>]

NoPayload == Payload({}, "", 0, 0, "", "", <<>>, <<>>)

\* Sequences of at most n names drawn from the name list `names`.
NameSeqs(names, n) == UNION {[1..k -> Range(names)] : k \in 0..n}

(* ------------------- serializer: validation ---------------------------- *)
\* Field validation of a recipe payload: time_minutes >= 0 and price >= 0
\* for the keys that are present.
Valid(p) ==
    /\ ("time_minutes" \in p.keys => p.time_minutes >= 0)
    /\ ("price" \in p.keys => p.price >= 0)

(* ------------------- repositories: get_or_create ----------------------- *)
Matching(table, u, n) == {i \in DOMAIN table : table[i].user = u /\ table[i].name = n}

\* Always inserts: the lookup is skipped.
GetOrCreateAlwaysInsert(table, next, u, n) ==
    [id |-> next, table |-> table @@ (next :> NamedRow(u, n)), next |-> next + 1]

\* get_or_create(user, name): exact-name lookup scoped to the user; the
\* existing row if there is one, else a new row under the next id.
GetOrCreate(table, next, u, n) ==
    IF Matching(table, u, n) # {}
    THEN [id |-> Min(Matching(table, u, n)), table |-> table, next |-> next]
    ELSE [id |-> next, table |-> table @@ (next :> NamedRow(u, n)), next |-> next + 1]

(* ------------------- serializer: write steps --------------------------- *)
\* One store write of a recipe create or update.
InsertStep(p) == [kind |-> "insert", name |-> "", p |-> p]
ScalarStep(p) == [kind |-> "scalars", name |-> "", p |-> p]
ClearStep(which) == [kind |-> which, name |-> "", p |-> NoPayload]
TagStep(n) == [kind |-> "tag", name |-> n, p |-> NoPayload]
IngredientStep(n) == [kind |-> "ingredient", name |-> n, p |-> NoPayload]

NameSteps(p) ==
    [i \in 1..Len(p.tags) |-> TagStep(p.tags[i])]
    \o [i \in 1..Len(p.ingredients) |-> IngredientStep(p.ingredients[i])]

\* Scalar fields of row r after applying the keys present in p.
ApplyScalars(r, p) ==
    [r EXCEPT
        !.title = IF "title" \in p.keys THEN p.title ELSE @,
        !.time_minutes = IF "time_minutes" \in p.keys THEN p.time_minutes ELSE @,
        !.price = IF "price" \in p.keys THEN p.price ELSE @,
        !.link = IF "link" \in p.keys THEN p.link ELSE @,
        !.description = IF "description" \in p.keys THEN p.description ELSE @]

\* The store after one write step on recipe rid, on behalf of user u.
ApplyStep(s, rid, u, st) ==
    CASE st.kind = "insert" ->
            [s EXCEPT
                !.recipes = @ @@ (rid :> ApplyScalars(RecipeRow(u, "", 0, 0, "", ""), st.p)),
                !.nextRecipeId = @ + 1]
      [] st.kind = "scalars" ->
            [s EXCEPT !.recipes[rid] = ApplyScalars(@, st.p)]
      [] st.kind = "clear_tags" ->
            [s EXCEPT !.recipes[rid].tags = {}]
      [] st.kind = "clear_ingredients" ->
            [s EXCEPT !.recipes[rid].ingredients = {}]
      [] st.kind = "tag" ->
            LET g == GetOrCreate(s.tags, s.nextTagId, u, st.name)
            IN  [s EXCEPT !.tags = g.table, !.nextTagId = g.next,
                          !.recipes[rid].tags = @ \cup {g.id}]
      [] st.kind = "ingredient" ->
            LET g == GetOrCreate(s.ingredients, s.nextIngredientId, u, st.name)
            IN  [s EXCEPT !.ingredients = g.table, !.nextIngredientId = g.next,
                          !.recipes[rid].ingredients = @ \cup {g.id}]

\* The store after the first k steps.
RECURSIVE ApplySteps(_, _, _, _, _)
ApplySteps(s, rid, u, steps, k) ==
    IF k = 0 THEN s
    ELSE ApplyStep(ApplySteps(s, rid, u, steps, k - 1), rid, u, steps[k])

\* Runs the steps; a storage fault at step `fault` (0: none) stops the run
\* before that step.
Run(s, rid, u, steps, fault) ==
    IF fault = 0 \/ fault > Len(steps)
    THEN [s |-> ApplySteps(s, rid, u, steps, Len(steps)), failed |-> FALSE]
    ELSE [s |-> ApplySteps(s, rid, u, steps, fault - 1), failed |-> TRUE]

\* Keeps whatever was written before the fault.
NoRollback(start, run) ==
    [s |-> run.s, status |-> IF run.failed THEN "StorageError" ELSE "ok"]

\* One transaction around the whole write: a failed run leaves the store
\* as it was and surfaces the error.
Atomic(start, run) ==
    IF run.failed
    THEN [s |-> start, status |-> "StorageError"]
    ELSE [s |-> run.s, status |-> "ok"]

(* ------------------- serializer: create and update --------------------- *)
CreateSteps(p) == <<InsertStep(p)>> \o NameSteps(p)

\* serializer.create: the recipe row, then every tag name and every
\* ingredient name resolved with get_or_create and added to the recipe.
SerializerCreate(s, u, p, fault) ==
    Atomic(s, Run(s, s.nextRecipeId, u, CreateSteps(p), fault))

\* Clears both sets whether or not their key is present.
UpdateStepsClearAlways(p) ==
    <<ScalarStep(p)>>
    \o <<ClearStep("clear_tags")>>
    \o [i \in 1..Len(p.tags) |-> TagStep(p.tags[i])]
    \o <<ClearStep("clear_ingredients")>>
    \o [i \in 1..Len(p.ingredients) |-> IngredientStep(p.ingredients[i])]

UpdateSteps(p) ==
    <<ScalarStep(p)>>
    \o (IF "tags" \in p.keys THEN <<ClearStep("clear_tags")>> ELSE <<>>)
    \o [i \in 1..Len(p.tags) |-> TagStep(p.tags[i])]
    \o (IF "ingredients" \in p.keys THEN <<ClearStep("clear_ingredients")>> ELSE <<>>)
    \o [i \in 1..Len(p.ingredients) |-> IngredientStep(p.ingredients[i])]

\* serializer.update (partial): the scalar keys present are applied; a
\* present `tags` / `ingredients` key replaces the set wholesale.
SerializerUpdate(s, rid, u, p, fault) ==
    Atomic(s, Run(s, rid, u, UpdateSteps(p), fault))

(* --------------------------- querysets --------------------------------- *)
RECURSIVE SortDesc(_)
SortDesc(S) == IF S = {} THEN <<>> ELSE <<Max(S)>> \o SortDesc(S \ {Max(S)})

Rank(names, n) == CHOOSE i \in DOMAIN names : names[i] = n

\* The ids of S ordered by name descending, equal names by ascending id.
RECURSIVE SortByNameDesc(_, _, _)
SortByNameDesc(table, names, S) ==
    IF S = {} THEN <<>>
    ELSE LET top == Max({Rank(names, table[i].name) : i \in S})
             first == Min({i \in S : Rank(names, table[i].name) = top})
         IN  <<first>> \o SortByNameDesc(table, names, S \ {first})

\* Every recipe, whoever owns it.
RecipeViewSet_get_queryset_AllUsers(s, u) == SortDesc(DOMAIN s.recipes)

\* The user's recipes by ascending id, as without order_by('-id').
RecipeViewSet_get_queryset_Ascending(s, u) ==
    LET q == SortDesc({i \in DOMAIN s.recipes : s.recipes[i].user = u})
    IN  [i \in 1..Len(q) |-> q[Len(q) + 1 - i]]

\* RecipeViewSet.get_queryset: queryset.filter(user=request.user).order_by('-id').
\* The request's query parameters are not read.
RecipeViewSet_get_queryset(s, u) ==
    SortDesc({i \in DOMAIN s.recipes : s.recipes[i].user = u})

\* Only the tags that some recipe of the user carries.
TagViewSet_get_queryset_AssignedOnly(s, u) ==
    SortByNameDesc(s.tags, TagNames,
        {i \in DOMAIN s.tags : /\ s.tags[i].user = u
                               /\ \E r \in DOMAIN s.recipes : i \in s.recipes[r].tags})

\* TagViewSet.get_queryset: queryset.filter(user=request.user).order_by('-name').
TagViewSet_get_queryset(s, u) ==
    SortByNameDesc(s.tags, TagNames, {i \in DOMAIN s.tags : s.tags[i].user = u})

\* Ingredient list: the user's ingredients ordered by name descending.
IngredientViewSet_get_queryset(s, u) ==
    SortByNameDesc(s.ingredients, IngredientNames,
        {i \in DOMAIN s.ingredients : s.ingredients[i].user = u})

\* Looks the id up in every user's recipes.
RecipeViewSet_get_object_AnyOwner(s, u, id) == id \in DOMAIN s.recipes

\* get_object of the generic view: the row of that id in get_queryset, or 404.
RecipeViewSet_get_object(s, u, id) == id \in Range(RecipeViewSet_get_queryset(s, u))

\* Saves the recipe under the first user instead of the requesting one.
perform_create_FirstUser(s, u, p, fault) == SerializerCreate(s, "u1", p, fault)

\* RecipeViewSet.perform_create: serializer.save(user=self.request.user).
perform_create(s, u, p, fault) == SerializerCreate(s, u, p, fault)

\* perform_update of the generic view: serializer.save() on the instance
\* get_object returned, in the request's context.
perform_update(s, u, id, p, fault) == SerializerUpdate(s, id, u, p, fault)

(* --------------------------- responses --------------------------------- *)
Response(op, u, id, p, tag_ids, ingredient_ids, status, result) ==
    [op |-> op, user |-> u, id |-> id, payload |-> p, tag_ids |-> tag_ids,
     ingredient_ids |-> ingredient_ids, status |-> status, result |-> result]

\* No response is pending: the server is waiting for the next request.
NoResponse == Response("none", "", 0, NoPayload, {}, {}, "ok", <<>>)
Idle == last = NoResponse

Commit(s) ==
    /\ recipes' = s.recipes
    /\ tags' = s.tags
    /\ ingredients' = s.ingredients
    /\ nextRecipeId' = s.nextRecipeId
    /\ nextTagId' = s.nextTagId
    /\ nextIngredientId' = s.nextIngredientId
    /\ images' = s.images
    /\ files' = s.files
    /\ UNCHANGED workers

\* The id counters stay within the model's bounds.
WithinBounds(s) ==
    /\ s.nextRecipeId <= MaxRecipes + 1
    /\ s.nextTagId <= MaxTags + 1
    /\ s.nextIngredientId <= MaxIngredients + 1

(* ----------------------------- inputs ---------------------------------- *)
RecipeIds == 1..MaxRecipes
TagIds == 1..MaxTags
IngredientIds == 1..MaxIngredients
Faults == 0..MaxFault
Filters ==
    {f \in (SUBSET TagIds) \X (SUBSET IngredientIds) :
        Cardinality(f[1]) + Cardinality(f[2]) <= MaxFilterIds}

TagLists == NameSeqs(TagNames, MaxNames)
IngredientLists == NameSeqs(IngredientNames, MaxNames)

\* Bodies of POST /recipes: the three required scalars, and names.
CreatePayloads ==
    {Payload({"title", "time_minutes", "price"}, "T1", 10, 5, "", "", <<>>, <<>>),
     Payload({"title", "time_minutes", "price"}, "T1", 10, -1, "", "", <<>>, <<>>),
     Payload({"title", "time_minutes", "price", "tags"}, "T1", -1, 5, "", "", <<"Vegan">>, <<>>),
     Payload({"title", "time_minutes", "price", "tags", "ingredients"},
             "T1", 10, 5, "", "", <<"Vegan">>, <<"Kale">>)}
    \cup {Payload({"title", "time_minutes", "price", "tags"}, "T1", 10, 5, "", "", t, <<>>) :
            t \in TagLists}
    \cup {Payload({"title", "time_minutes", "price", "ingredients"}, "T1", 10, 5, "", "", <<>>, i) :
            i \in IngredientLists}

\* Bodies of PATCH /recipes/{id}.
UpdatePayloads ==
    {NoPayload,
     Payload({"title"}, "T2", 0, 0, "", "", <<>>, <<>>),
     Payload({"time_minutes"}, "", -1, 0, "", "", <<>>, <<>>),
     Payload({"price"}, "", 0, -1, "", "", <<>>, <<>>),
     Payload({"title", "tags"}, "T2", 0, 0, "", "", <<"Vegan">>, <<>>),
     Payload({"time_minutes", "tags"}, "", -1, 0, "", "", <<"Vegan">>, <<>>),
     Payload({"tags", "ingredients"}, "", 0, 0, "", "", <<"Indian">>, <<"Kale">>)}
    \cup {Payload({"tags"}, "", 0, 0, "", "", t, <<>>) : t \in TagLists}
    \cup {Payload({"ingredients"}, "", 0, 0, "", "", <<>>, i) : i \in IngredientLists}

\* Bodies of POST /recipes/{id}/upload-image: a JPEG file, and a string that
\* is no image.
ImagePayloads == {"jpeg", "notimage"}
Decodable(data) == data = "jpeg"

\* The requests that run concurrently; none is in progress while requests
\* are served one at a time.
Workers == {"w1", "w2"}
IdleWorker ==
    [pc |-> "idle", op |-> "none", user |-> "", rid |-> 0, names |-> <<>>, i |-> 0,
     hit |-> 0, pending |-> <<>>, assoc |-> {}, fresh |-> {}]
NoWorkers == [w \in Workers |-> IdleWorker]

(* ----------------------------- actions --------------------------------- *)
Init ==
    /\ recipes = <<>>
    /\ tags = <<>>
    /\ ingredients = <<>>
    /\ nextRecipeId = 1
    /\ nextTagId = 1
    /\ nextIngredientId = 1
    /\ last = NoResponse
    /\ before = EmptyStore
    /\ images = <<>>
    /\ files = {}
    /\ workers = NoWorkers

Unchanged ==
    UNCHANGED <<recipes, tags, ingredients, nextRecipeId, nextTagId, nextIngredientId,
                images, files, workers>>

\* GET /recipes?tags=..&ingredients=..  (ListModelMixin.list over get_queryset)
RecipeList(u, tag_ids, ingredient_ids) ==
    /\ Idle
    /\ before' = Store
    /\ last' = Response("list", u, 0, NoPayload, tag_ids, ingredient_ids, "ok",
                        RecipeViewSet_get_queryset(Store, u))
    /\ Unchanged

\* GET /recipes/{id}  (RetrieveModelMixin.retrieve)
RecipeRetrieve(u, id) ==
    /\ Idle
    /\ before' = Store
    /\ last' = IF RecipeViewSet_get_object(Store, u, id)
               THEN Response("retrieve", u, id, NoPayload, {}, {}, "ok", <<id>>)
               ELSE Response("retrieve", u, id, NoPayload, {}, {}, "NotFound", <<>>)
    /\ Unchanged

\* POST /recipes  (CreateModelMixin.create: is_valid, then perform_create)
RecipeCreate(u, p, fault) ==
    /\ Idle
    /\ before' = Store
    /\ IF ~Valid(p)
       THEN /\ fault = 0
            /\ last' = Response("create", u, 0, p, {}, {}, "ValidationError", <<>>)
            /\ Unchanged
       ELSE /\ fault <= Len(CreateSteps(p))
            /\ WithinBounds(perform_create(Store, u, p, 0).s)
            /\ LET out == perform_create(Store, u, p, fault)
               IN  /\ Commit(out.s)
                   /\ last' = Response("create", u, 0, p, {}, {}, out.status,
                                       IF out.status = "ok" THEN <<nextRecipeId>> ELSE <<>>)

\* PATCH /recipes/{id}  (UpdateModelMixin.partial_update: get_object,
\* is_valid, then perform_update)
RecipePartialUpdate(u, id, p, fault) ==
    /\ Idle
    /\ before' = Store
    /\ IF ~RecipeViewSet_get_object(Store, u, id)
       THEN /\ fault = 0
            /\ last' = Response("update", u, id, p, {}, {}, "NotFound", <<>>)
            /\ Unchanged
       ELSE IF ~Valid(p)
       THEN /\ fault = 0
            /\ last' = Response("update", u, id, p, {}, {}, "ValidationError", <<>>)
            /\ Unchanged
       ELSE /\ fault <= Len(UpdateSteps(p))
            /\ WithinBounds(perform_update(Store, u, id, p, 0).s)
            /\ LET out == perform_update(Store, u, id, p, fault)
               IN  /\ Commit(out.s)
                   /\ last' = Response("update", u, id, p, {}, {}, out.status,
                                       IF out.status = "ok" THEN <<id>> ELSE <<>>)

\* DELETE /recipes/{id}  (DestroyModelMixin.destroy: get_object, delete)
RecipeDestroy(u, id) ==
    /\ Idle
    /\ before' = Store
    /\ IF ~RecipeViewSet_get_object(Store, u, id)
       THEN /\ last' = Response("destroy", u, id, NoPayload, {}, {}, "NotFound", <<>>)
            /\ Unchanged
       ELSE /\ recipes' = [i \in DOMAIN recipes \ {id} |-> recipes[i]]
            /\ last' = Response("destroy", u, id, NoPayload, {}, {}, "ok", <<>>)
            /\ images' = [i \in DOMAIN images \ {id} |-> images[i]]
            /\ UNCHANGED <<tags, ingredients, nextRecipeId, nextTagId, nextIngredientId,
                           files, workers>>

\* GET /tags  (TagViewSet: ListModelMixin.list over get_queryset)
TagList(u) ==
    /\ Idle
    /\ before' = Store
    /\ last' = Response("tag_list", u, 0, NoPayload, {}, {}, "ok",
                        TagViewSet_get_queryset(Store, u))
    /\ Unchanged

\* DELETE /tags/{id}: TagViewSet is GenericViewSet + ListModelMixin, so it
\* has no destroy and no detail route; the request is answered 404 whatever
\* the id, and nothing is deleted.
TagDestroy(u, id) ==
    /\ Idle
    /\ before' = Store
    /\ last' = Response("tag_destroy", u, id, NoPayload, {}, {}, "NotFound", <<>>)
    /\ Unchanged

\* GET /ingredients
IngredientList(u) ==
    /\ Idle
    /\ before' = Store
    /\ last' = Response("ingredient_list", u, 0, NoPayload, {}, {}, "ok",
                        IngredientViewSet_get_queryset(Store, u))
    /\ Unchanged

\* DELETE /ingredients/{id}: 404 unless owned; else the row goes and every
\* recipe that referenced it loses that association.
IngredientDestroy(u, id) ==
    /\ Idle
    /\ before' = Store
    /\ IF ~(id \in Range(IngredientViewSet_get_queryset(Store, u)))
       THEN /\ last' = Response("ingredient_destroy", u, id, NoPayload, {}, {}, "NotFound", <<>>)
            /\ Unchanged
       ELSE /\ ingredients' = [i \in DOMAIN ingredients \ {id} |-> ingredients[i]]
            /\ recipes' = [r \in DOMAIN recipes |->
                               [recipes[r] EXCEPT !.ingredients = @ \ {id}]]
            /\ last' = Response("ingredient_destroy", u, id, NoPayload, {}, {}, "ok", <<>>)
            /\ UNCHANGED <<tags, nextRecipeId, nextTagId, nextIngredientId,
                           images, files, workers>>

\* POST /recipes/{id}/upload-image: RecipeViewSet defines no upload_image
\* action (and get_serializer_class knows no image serializer), so there is
\* no such route; the request is answered 404 whatever the payload and
\* nothing is stored.
RecipeUploadImage(u, id, data) ==
    /\ Idle
    /\ before' = Store
    /\ last' = Response("upload_image", u, id, NoPayload, {}, {}, "NotFound", <<>>)
                    @@ [data |-> data]
    /\ Unchanged

\* The response is handed to the client; the next request can be served.
Return ==
    /\ ~Idle
    /\ last' = NoResponse
    /\ before' = EmptyStore
    /\ Unchanged

Next ==
    \/ Return
    \/ \E u \in Users, f \in Filters : RecipeList(u, f[1], f[2])
    \/ \E u \in Users, id \in RecipeIds : RecipeRetrieve(u, id)
    \/ \E u \in Users, p \in CreatePayloads, f \in Faults : RecipeCreate(u, p, f)
    \/ \E u \in Users, id \in RecipeIds, p \in UpdatePayloads, f \in Faults :
            RecipePartialUpdate(u, id, p, f)
    \/ \E u \in Users, id \in RecipeIds : RecipeDestroy(u, id)
    \/ \E u \in Users : TagList(u)
    \/ \E u \in Users, id \in TagIds : TagDestroy(u, id)
    \/ \E u \in Users : IngredientList(u)
    \/ \E u \in Users, id \in IngredientIds : IngredientDestroy(u, id)
    \/ \E u \in Users, id \in RecipeIds, d \in ImagePayloads : RecipeUploadImage(u, id, d)

Spec == Init /\ [][Next]_vars

(* ------------------- requests running concurrently --------------------- *)
\* Two recipe writes in progress at once. Each runs in its own transaction:
\* its rows become visible to the other at commit; ids come from the
\* sequences at once. get_or_create is two statements, the lookup and the
\* insert, and nothing (no lock, no unique (user, name) constraint) keeps
\* another request from running between them.
RaceFrame == UNCHANGED <<ingredients, nextIngredientId, last, before, images, files>>

\* The worker's position after name i is done.
AfterName(wk, i) == IF i > Len(wk.names) THEN "commit" ELSE "lookup"

\* The names of the payload that have no row of the user when the request
\* arrives.
FreshNames(u, names) == {n \in Range(names) : Matching(tags, u, n) = {}}

\* POST /recipes arrives at a free worker: perform_create starts
\* serializer.save(user=request.user); the recipe row takes the next id.
ConcurrentCreate(w, u, names) ==
    /\ workers[w].pc = "idle"
    /\ nextRecipeId <= MaxRecipes
    /\ workers' = [workers EXCEPT ![w] =
            [pc |-> AfterName([names |-> names], 1), op |-> "create", user |-> u,
             rid |-> nextRecipeId, names |-> names, i |-> 1, hit |-> 0,
             pending |-> <<>>, assoc |-> {}, fresh |-> FreshNames(u, names)]]
    /\ nextRecipeId' = nextRecipeId + 1
    /\ UNCHANGED <<recipes, tags, nextTagId>>
    /\ RaceFrame

\* PATCH /recipes/{id} with a `tags` key arrives at a free worker: get_object
\* finds the user's recipe; writes of the same recipe wait for one another
\* on the recipe row. The tag set is replaced wholesale.
ConcurrentPartialUpdate(w, u, id, names) ==
    /\ workers[w].pc = "idle"
    /\ RecipeViewSet_get_object(Store, u, id)
    /\ \A v \in Workers \ {w} : workers[v].pc = "idle" \/ workers[v].rid # id
    /\ workers' = [workers EXCEPT ![w] =
            [pc |-> AfterName([names |-> names], 1), op |-> "update", user |-> u,
             rid |-> id, names |-> names, i |-> 1, hit |-> 0,
             pending |-> <<>>, assoc |-> {}, fresh |-> FreshNames(u, names)]]
    /\ UNCHANGED <<recipes, tags, nextRecipeId, nextTagId>>
    /\ RaceFrame

\* get_or_create, first statement: the lookup, over the committed rows and
\* the worker's own uncommitted ones.
GetOrCreateLookup(w) ==
    LET wk == workers[w]
        found == Matching(tags @@ wk.pending, wk.user, wk.names[wk.i])
    IN  /\ wk.pc = "lookup"
        /\ workers' = [workers EXCEPT ![w].pc = "insert",
                                      ![w].hit = IF found = {} THEN 0 ELSE Min(found)]
        /\ UNCHANGED <<recipes, tags, nextRecipeId, nextTagId>>
        /\ RaceFrame

\* get_or_create, second statement: the row found, or else a new row under
\* the next id; the row is added to the recipe's set.
GetOrCreateInsert(w) ==
    LET wk == workers[w]
    IN  /\ wk.pc = "insert"
        /\ IF wk.hit # 0
           THEN /\ workers' = [workers EXCEPT ![w].pc = AfterName(wk, wk.i + 1),
                                              ![w].i = wk.i + 1,
                                              ![w].assoc = wk.assoc \cup {wk.hit}]
                /\ UNCHANGED nextTagId
           ELSE /\ nextTagId <= MaxTags
                /\ workers' = [workers EXCEPT ![w].pc = AfterName(wk, wk.i + 1),
                                              ![w].i = wk.i + 1,
                                              ![w].assoc = wk.assoc \cup {nextTagId},
                                              ![w].pending = wk.pending @@
                                                  (nextTagId :> NamedRow(wk.user, wk.names[wk.i]))]
                /\ nextTagId' = nextTagId + 1
        /\ UNCHANGED <<recipes, tags, nextRecipeId>>
        /\ RaceFrame

\* The transaction commits: the new tag rows, and the recipe with its tag
\* set, become visible.
TransactionCommit(w) ==
    LET wk == workers[w]
    IN  /\ wk.pc = "commit"
        /\ tags' = tags @@ wk.pending
        /\ recipes' =
              IF wk.op = "create"
              THEN recipes @@
                     (wk.rid :> [RecipeRow(wk.user, "T1", 10, 5, "", "") EXCEPT !.tags = wk.assoc])
              ELSE [recipes EXCEPT ![wk.rid].tags = wk.assoc]
        /\ workers' = [workers EXCEPT ![w].pc = "done"]
        /\ UNCHANGED <<nextRecipeId, nextTagId>>
        /\ RaceFrame

\* The response is sent; the worker is free again.
ConcurrentReturn(w) ==
    /\ workers[w].pc = "done"
    /\ workers' = [workers EXCEPT ![w] = IdleWorker]
    /\ UNCHANGED <<recipes, tags, nextRecipeId, nextTagId>>
    /\ RaceFrame

NextRace ==
    \/ \E w \in Workers, u \in Users, names \in TagLists : ConcurrentCreate(w, u, names)
    \/ \E w \in Workers, u \in Users, id \in RecipeIds, names \in TagLists :
            ConcurrentPartialUpdate(w, u, id, names)
    \/ \E w \in Workers : GetOrCreateLookup(w)
    \/ \E w \in Workers : GetOrCreateInsert(w)
    \/ \E w \in Workers : TransactionCommit(w)
    \/ \E w \in Workers : ConcurrentReturn(w)

SpecRace == Init /\ [][NextRace]_vars

(* ------------------------------ claims --------------------------------- *)
Answered(op) == last.op = op /\ last.status = "ok"
Owns(table, u, id) == id \in DOMAIN table /\ table[id].user = u
NamesOf(names) == Range(names)

\* C1: whatever happened before, a recipe list (filtered or not), a recipe
\* get, a tag list and an ingredient list return only rows owned by the
\* user who asked.
C1_OnlyOwnRowsVisible ==
    /\ (last.op \in {"list", "retrieve"}) =>
            \A i \in Range(last.result) : Owns(recipes, last.user, i)
    /\ (last.op = "tag_list") =>
            \A i \in Range(last.result) : Owns(tags, last.user, i)
    /\ (last.op = "ingredient_list") =>
            \A i \in Range(last.result) : Owns(ingredients, last.user, i)

\* A filtered list that returned something while another user also has a
\* recipe and a tag.
C1_Witness ==
    /\ Answered("list")
    /\ last.tag_ids # {}
    /\ last.result # <<>>
    /\ \E r \in DOMAIN recipes : recipes[r].user # last.user
    /\ \E t \in DOMAIN tags : tags[t].user # last.user

\* The rows of `table` that user u owns under one of the names.
Resolved(table, u, names) ==
    {i \in DOMAIN table : table[i].user = u /\ table[i].name \in NamesOf(names)}

\* C2: a successful update whose payload has the `tags` (resp.
\* `ingredients`) key leaves the recipe with exactly the user's rows named
\* in the payload (none for an empty list); every row it dissociated still
\* exists unchanged and is in its owner's list.
C2_UpdateReplacesSet ==
    Answered("update") =>
        /\ ("tags" \in last.payload.keys) =>
              /\ recipes[last.id].tags = Resolved(tags, last.user, last.payload.tags)
              /\ Cardinality(recipes[last.id].tags) = Cardinality(NamesOf(last.payload.tags))
              /\ \A i \in before.recipes[last.id].tags \ recipes[last.id].tags :
                    /\ i \in DOMAIN tags
                    /\ tags[i] = before.tags[i]
                    /\ i \in Range(TagViewSet_get_queryset(Store, tags[i].user))
        /\ ("ingredients" \in last.payload.keys) =>
              /\ recipes[last.id].ingredients =
                    Resolved(ingredients, last.user, last.payload.ingredients)
              /\ Cardinality(recipes[last.id].ingredients) =
                    Cardinality(NamesOf(last.payload.ingredients))
              /\ \A i \in before.recipes[last.id].ingredients \ recipes[last.id].ingredients :
                    /\ i \in DOMAIN ingredients
                    /\ ingredients[i] = before.ingredients[i]
                    /\ i \in Range(IngredientViewSet_get_queryset(Store, ingredients[i].user))

\* An update replaced one tag by another: a tag was dissociated, one is set.
C2_Witness ==
    /\ Answered("update")
    /\ "tags" \in last.payload.keys
    /\ before.recipes[last.id].tags \ recipes[last.id].tags # {}
    /\ recipes[last.id].tags # {}

\* The association set `assoc` holds one row of u per distinct name: the
\* row that was there before when there was one, else one new row.
OnePerName(assoc, tableBefore, table, u, names) ==
    /\ Cardinality(assoc) = Cardinality(NamesOf(names))
    /\ \A i \in assoc : Owns(table, u, i) /\ table[i].name \in NamesOf(names)
    /\ \A n \in NamesOf(names) :
          /\ Cardinality({i \in assoc : table[i].name = n}) = 1
          /\ \A j \in Matching(tableBefore, u, n) : j \in assoc
    /\ Cardinality(DOMAIN table \ DOMAIN tableBefore) =
          Cardinality({n \in NamesOf(names) : Matching(tableBefore, u, n) = {}})
    /\ \A j \in DOMAIN tableBefore : j \in DOMAIN table /\ table[j] = tableBefore[j]

\* C3: the recipe a successful create returns has one tag (resp.
\* ingredient) per distinct name of the payload: the user's existing row is
\* reused, a missing name adds exactly one row, repeated names collapse.
C3_CreateResolvesNames ==
    Answered("create") =>
        /\ Len(last.result) = 1
        /\ Owns(recipes, last.user, last.result[1])
        /\ OnePerName(recipes[last.result[1]].tags, before.tags, tags,
                      last.user, last.payload.tags)
        /\ OnePerName(recipes[last.result[1]].ingredients, before.ingredients, ingredients,
                      last.user, last.payload.ingredients)

\* A create by the second user with two names, one already the user's own
\* row and one new.
C3_Witness ==
    /\ Answered("create")
    /\ last.user = "u2"
    /\ \E n, m \in NamesOf(last.payload.tags) :
          /\ Matching(before.tags, last.user, n) # {}
          /\ Matching(before.tags, last.user, m) = {}

NoDuplicateNames(table) ==
    \A i, j \in DOMAIN table :
        (table[i].user = table[j].user /\ table[i].name = table[j].name) => i = j

\* Two get_or_create calls in sequence for the same (user, name) give the
\* same id, and the second adds no row.
TwiceSame(table, next, u, n) ==
    GetOrCreate(GetOrCreate(table, next, u, n).table,
                GetOrCreate(table, next, u, n).next, u, n)
        = GetOrCreate(table, next, u, n)

\* C4: no user ever owns two tags or two ingredients of the same name, and
\* get_or_create called twice in sequence returns the same id.
C4_NoDuplicateRows ==
    /\ NoDuplicateNames(tags)
    /\ NoDuplicateNames(ingredients)
    /\ \A u \in Users :
          /\ \A n \in Range(TagNames) : TwiceSame(tags, nextTagId, u, n)
          /\ \A n \in Range(IngredientNames) :
                TwiceSame(ingredients, nextIngredientId, u, n)

\* An update named a tag its user already had; no row was added for it.
C4_Witness ==
    /\ Answered("update")
    /\ \E n \in NamesOf(last.payload.tags) : Matching(before.tags, last.user, n) # {}
    /\ DOMAIN tags = DOMAIN before.tags

\* C5: a recipe list returns exactly the user's recipes that carry one of
\* the requested tag ids (when tag ids are given) and one of the requested
\* ingredient ids (when ingredient ids are given).
C5_ListAppliesFilters ==
    (last.op = "list") =>
        Range(last.result) =
            {r \in DOMAIN recipes :
                /\ recipes[r].user = last.user
                /\ (last.tag_ids = {} \/ recipes[r].tags \cap last.tag_ids # {})
                /\ (last.ingredient_ids = {}
                        \/ recipes[r].ingredients \cap last.ingredient_ids # {})}

\* C6: a get, update or delete of a recipe id the user does not own --
\* another user's or nobody's -- is answered NotFound with an empty body
\* and leaves the store as it was.
C6_NotOwnedIsNotFound ==
    (/\ last.op \in {"retrieve", "update", "destroy"}
     /\ ~Owns(before.recipes, last.user, last.id)) =>
        /\ last.status = "NotFound"
        /\ last.result = <<>>
        /\ Store = before

\* A delete of another user's existing recipe was refused.
C6_Witness ==
    /\ last.op = "destroy"
    /\ last.id \in DOMAIN before.recipes
    /\ before.recipes[last.id].user # last.user
    /\ last.status = "NotFound"

C8_AssociationsShareOwner ==
    \A r \in DOMAIN recipes :
        /\ \A i \in recipes[r].tags : Owns(tags, recipes[r].user, i)
        /\ \A i \in recipes[r].ingredients : Owns(ingredients, recipes[r].user, i)

\* A user's request named a tag that only the other user owned, and the
\* recipe got a tag of that name.
C8_Witness ==
    /\ last.op \in {"create", "update"}
    /\ last.status = "ok"
    /\ \E n \in NamesOf(last.payload.tags) :
          /\ Matching(before.tags, last.user, n) = {}
          /\ \E v \in Users \ {last.user} : Matching(before.tags, v, n) # {}
          /\ \E i \in recipes[last.result[1]].tags : tags[i].name = n

\* C9: deleting a tag or ingredient the user does not own is answered
\* NotFound and changes nothing; deleting an owned one removes the row and
\* that association from every recipe, and nothing else.
C9_DestroyRemovesRow ==
    /\ (last.op = "tag_destroy") =>
          IF ~Owns(before.tags, last.user, last.id)
          THEN last.status = "NotFound" /\ Store = before
          ELSE /\ last.status = "ok"
               /\ tags = [j \in DOMAIN before.tags \ {last.id} |-> before.tags[j]]
               /\ recipes = [r \in DOMAIN before.recipes |->
                                [before.recipes[r] EXCEPT !.tags = @ \ {last.id}]]
               /\ ingredients = before.ingredients
    /\ (last.op = "ingredient_destroy") =>
          IF ~Owns(before.ingredients, last.user, last.id)
          THEN last.status = "NotFound" /\ Store = before
          ELSE /\ last.status = "ok"
               /\ ingredients =
                    [j \in DOMAIN before.ingredients \ {last.id} |-> before.ingredients[j]]
               /\ recipes = [r \in DOMAIN before.recipes |->
                                [before.recipes[r] EXCEPT !.ingredients = @ \ {last.id}]]
               /\ tags = before.tags

\* C10: a successful update leaves every scalar whose key is absent, the
\* tag set when `tags` is absent and the ingredient set when `ingredients`
\* is absent as they were; the owner and the other recipes do not change.
C10_UpdateTouchesOnlyNamedKeys ==
    Answered("update") =>
        /\ DOMAIN recipes = DOMAIN before.recipes
        /\ \A r \in DOMAIN recipes \ {last.id} : recipes[r] = before.recipes[r]
        /\ recipes[last.id].user = before.recipes[last.id].user
        /\ ("title" \notin last.payload.keys) =>
                recipes[last.id].title = before.recipes[last.id].title
        /\ ("time_minutes" \notin last.payload.keys) =>
                recipes[last.id].time_minutes = before.recipes[last.id].time_minutes
        /\ ("price" \notin last.payload.keys) =>
                recipes[last.id].price = before.recipes[last.id].price
        /\ ("link" \notin last.payload.keys) =>
                recipes[last.id].link = before.recipes[last.id].link
        /\ ("description" \notin last.payload.keys) =>
                recipes[last.id].description = before.recipes[last.id].description
        /\ ("tags" \notin last.payload.keys) =>
                recipes[last.id].tags = before.recipes[last.id].tags /\ tags = before.tags
        /\ ("ingredients" \notin last.payload.keys) =>
                /\ recipes[last.id].ingredients = before.recipes[last.id].ingredients
                /\ ingredients = before.ingredients

\* An update carrying only a title changed the title of a recipe that had
\* tags and ingredients.
C10_Witness ==
    /\ Answered("update")
    /\ last.payload.keys = {"title"}
    /\ recipes[last.id].title # before.recipes[last.id].title
    /\ before.recipes[last.id].tags # {}
    /\ before.recipes[last.id].ingredients # {}

\* C11: an upload of a payload that is no decodable image to a recipe of
\* the user is answered with a validation failure, and the recipe's image
\* reference and the stored binaries stay as they were.
C11_BadImageIsRejected ==
    (/\ last.op = "upload_image"
     /\ ~Decodable(last.data)
     /\ Owns(before.recipes, last.user, last.id)) =>
        /\ last.status = "ValidationError"
        /\ images = before.images
        /\ files = before.files

\* C12: the sequence a recipe list returns is ordered by recipe id strictly
\* descending, so it holds each recipe at most once, also when a recipe
\* carries several of the requested tag or ingredient ids.
C12_ListDescendingOnce ==
    (last.op = "list") =>
        \A i, j \in DOMAIN last.result : i < j => last.result[i] > last.result[j]

\* A list of two recipes is answered, requested with two tag ids that one
\* of the listed recipes carries both.
C12_Witness ==
    /\ Answered("list")
    /\ Len(last.result) = 2
    /\ Cardinality(last.tag_ids) = 2
    /\ \E r \in Range(last.result) : last.tag_ids \subseteq recipes[r].tags

\* C13: when two recipe writes of one user that ran at the same time have
\* both committed, and both named a tag the user had no row for when they
\* arrived, the user has exactly one row of that name and both recipes
\* carry it.
C13_ConcurrentWritesShareOneRow ==
    \A v, w \in Workers :
        (/\ v # w
         /\ workers[v].pc = "done"
         /\ workers[w].pc = "done"
         /\ workers[v].user = workers[w].user) =>
            \A n \in workers[v].fresh \cap workers[w].fresh :
                LET rows == Matching(tags, workers[v].user, n)
                IN  /\ Cardinality(rows) = 1
                    /\ rows \subseteq recipes[workers[v].rid].tags
                    /\ rows \subseteq recipes[workers[w].rid].tags

====
